---- MODULE Spec2Model ----
(***************************************************************************)
(* The tag-aware text codec of the macLLM input field.                     *)
(*                                                                         *)
(* A plain text is a sequence of one-character strings.  A rendered buffer *)
(* (the NSTextView's text storage) is a sequence of elements, each one     *)
(* UTF-16 unit with its attributes: a plain character, or the object       *)
(* replacement character U+FFFC carrying the raw tag text under            *)
(* TAG_ATTR_NAME and the label drawn on the pill.                          *)
(*                                                                         *)
(* The delegate of the input field (textDidChange_, the key commands, the  *)
(* rebuild and its latch) is modelled as a stack of running handlers, one  *)
(* step per call into the text view.                                       *)
(***************************************************************************)
EXTENDS Integers, Sequences, FiniteSets, TLC

VARIABLES
    pc,         \* position of the host in the scenario being run
    text,       \* plain text handed to build_input_attributed_with_caret
    caret,      \* caret_plain_index handed to it
    reg,        \* the shortcut list and plugin list read by the pass
    storage,    \* text_view.textStorage(): the rendered buffer
    sel,        \* text_view.selectedRange().location (rendered space)
    err,        \* TRUE when the last call raised instead of returning
    plain,      \* last result of _plain_text_from_view(strip_ends=False)
    pills1,     \* raw texts of the pills of the first render pass
    sel0,       \* caret the user placed before the rebuilds started
    fragment,   \* last result of _current_fragment
    _rebuilding, \* the delegate's latch: a rebuild is replacing the content
    stack,      \* the handlers being run, innermost last
    visible,    \* autocomplete.is_visible()
    cmd,        \* the key command the last user event was, if it was one,
                \* with the view as it found it and whether it was consumed
    submitted,  \* number of calls of macllm_ui.handle_user_input
    updates,    \* parity of the calls of autocomplete.update_suggestions
    events,     \* number of user events (keys typed, key commands) so far
    outcome,    \* how the last textDidChange_ left its guards
    token_range, \* last result of find_token_range
    history     \* last result of render_text_with_pills

\* the state of the codec scenarios and the state of the delegate
codecVars == <<pc, text, caret, reg, err, plain, pills1, sel0, token_range, history>>

hostVars == <<_rebuilding, stack, visible, cmd, submitted, updates, events, outcome>>

vars == <<pc, text, caret, reg, storage, sel, err, plain, pills1, sel0, fragment,
          _rebuilding, stack, visible, cmd, submitted, updates, events, outcome,
          token_range, history>>

----------------------------------------------------------------------------
(* Bounds of the model. *)

\* number of pieces (see Pieces) a plain text is made of
MaxPieces == 3

\* number of pieces (see FragPieces) of a text whose fragment is taken
MaxFragPieces == 5

\* number of elements of a text storage the user has edited by hand
MaxStorage == 4

\* number of user events (keys typed, key commands) in a session
MaxEvents == 3

\* number of handlers that may be running inside one another
MaxDepth == 3

\* how far outside [0, len(text)] a reported caret may lie
MaxOutside == 2

----------------------------------------------------------------------------
(* Characters and strings. *)

\* U+FFFC, the object replacement character an attachment occupies
OBJ == "U+FFFC"

\* the value of a missing attribute (attrs.get(TAG_ATTR_NAME) is None)
None == <<"None">>

is_delim(ch) == ch \in {" ", "\n", "\t"}

\* text[i] and text[a:b] of Python (0-based, end exclusive)
At(s, i) == s[i + 1]

Slice(s, a, b) == SubSeq(s, a + 1, b)

\* s.startswith(p, i)
StartsWithAt(s, p, i) ==
    /\ i + Len(p) <= Len(s)
    /\ \A k \in 1..Len(p) : s[i + k] = p[k]

StartsWith(s, p) == StartsWithAt(s, p, 0)

EndsWith(s, p) ==
    /\ Len(p) <= Len(s)
    /\ \A k \in 1..Len(p) : s[Len(s) - Len(p) + k] = p[k]

Contains(s, ch) == \E k \in 1..Len(s) : s[k] = ch

RECURSIVE Concat(_)
Concat(ss) == IF ss = <<>> THEN <<>> ELSE Head(ss) \o Concat(Tail(ss))

----------------------------------------------------------------------------
(* Literals that occur in the source. *)

AtQuote == <<"@", "\"">>
AtHttp == <<"@", "h", "t", "t", "p", ":", "/", "/">>
AtHttps == <<"@", "h", "t", "t", "p", "s", ":", "/", "/">>
ProtocolSep == <<":", "/", "/">>

----------------------------------------------------------------------------
(* Plugins and registries.  A plugin is what the codec sees of it: the     *)
(* value of get_prefixes(), of PATH_PREFIXES, the label display_string     *)
(* draws, and which of the three accessors raise.                          *)

UrlPlugin ==
    [name |-> "url", prefixes |-> {AtHttp, AtHttps}, path |-> {},
     label |-> <<"u", "r", "l">>, raises |-> {}]

FilePlugin ==
    [name |-> "file",
     prefixes |-> {<<"@", "/">>, <<"@", "~">>, <<"@", "\"", "/">>, <<"@", "\"", "~">>},
     path |-> {<<"@", "/">>, <<"@", "~">>, <<"@", "\"", "/">>, <<"@", "\"", "~">>},
     label |-> <<"f">>, raises |-> {}]

ClipboardPlugin ==
    [name |-> "clipboard", prefixes |-> {<<"@", "c">>}, path |-> {},
     label |-> <<"c", "l", "i", "p">>, raises |-> {}]

\* the usual set-up: one shortcut, the three tag plugins
RegUsual ==
    [shortcuts |-> {<<"/", "b">>},
     plugins |-> <<UrlPlugin, FilePlugin, ClipboardPlugin>>]

\* a set-up whose shortcut list also holds a protocol prefix
RegOverlap ==
    [shortcuts |-> {<<"/", "b">>, AtHttp},
     plugins |-> <<UrlPlugin, FilePlugin, ClipboardPlugin>>]

Registries == {RegUsual, RegOverlap}

\* the three accessors of a plugin the codec calls under try/except
Accessors == {"get_prefixes", "PATH_PREFIXES", "display_string"}

\* plugin p with the accessors in failing raising an exception when called
Failing(p, failing) == [p EXCEPT !.raises = failing]

\* set-ups in which one plugin fails: the URL plugin altogether, the file
\* plugin's label lookup, the file plugin's PATH_PREFIXES
RegUrlDown ==
    [shortcuts |-> {<<"/", "b">>},
     plugins |-> <<Failing(UrlPlugin, Accessors), FilePlugin, ClipboardPlugin>>]

RegFileLabelDown ==
    [shortcuts |-> {<<"/", "b">>},
     plugins |-> <<UrlPlugin, Failing(FilePlugin, {"display_string"}), ClipboardPlugin>>]

RegFilePathDown ==
    [shortcuts |-> {<<"/", "b">>},
     plugins |-> <<UrlPlugin, Failing(FilePlugin, {"PATH_PREFIXES"}), ClipboardPlugin>>]

FaultyRegistries == {RegUrlDown, RegFileLabelDown, RegFilePathDown}

----------------------------------------------------------------------------
(* tag_render.py *)

\* p.get_prefixes() and getattr(p, "PATH_PREFIXES", []) under try/except
get_prefixes(p) == IF "get_prefixes" \in p.raises THEN {} ELSE p.prefixes

PATH_PREFIXES(p) == IF "PATH_PREFIXES" \in p.raises THEN {} ELSE p.path

\* _collect_prefixes with the protocol heuristic forgotten
_collect_prefixes_no_heuristic(plugins) ==
    [normal |-> UNION {get_prefixes(plugins[k]) : k \in 1..Len(plugins)},
     path_like |-> UNION {PATH_PREFIXES(plugins[k]) : k \in 1..Len(plugins)},
     prefix_only |-> {}]

_collect_prefixes(plugins) ==
    LET normal == UNION {get_prefixes(plugins[k]) : k \in 1..Len(plugins)}
    IN  [normal |-> normal,
         path_like |-> UNION {PATH_PREFIXES(plugins[k]) : k \in 1..Len(plugins)},
         prefix_only |-> {pr \in normal : EndsWith(pr, ProtocolSep)}]

\* does plugin p claim raw_tag (the "matched" flag of display_string_for_tag)
PluginMatches(p, raw_tag) ==
    \/ \E pr \in get_prefixes(p) : StartsWith(raw_tag, pr)
    \/ /\ "PATH_PREFIXES" \notin p.raises
       /\ \E pr \in p.path : StartsWith(raw_tag, pr)

RECURSIVE DisplayFrom(_, _, _)
DisplayFrom(raw_tag, plugins, k) ==
    IF k > Len(plugins) THEN raw_tag
    ELSE IF PluginMatches(plugins[k], raw_tag)
         THEN IF "display_string" \in plugins[k].raises
              THEN raw_tag
              ELSE plugins[k].label
         ELSE DisplayFrom(raw_tag, plugins, k + 1)

display_string_for_tag(raw_tag, plugins) == DisplayFrom(raw_tag, plugins, 1)

\* find_token_range: the leftward and the rightward scan, each toggling the
\* quote state on every '"' and stopping at a delimiter outside quotes
RECURSIVE RangeStart(_, _, _)
RangeStart(s, start, in_quotes) ==
    IF start <= 0 THEN start
    ELSE LET ch == At(s, start - 1)
         IN  IF ch = "\"" THEN RangeStart(s, start - 1, ~in_quotes)
             ELSE IF is_delim(ch) /\ ~in_quotes THEN start
             ELSE RangeStart(s, start - 1, in_quotes)

RECURSIVE RangeEnd(_, _, _)
RangeEnd(s, end, in_quotes) ==
    IF end >= Len(s) THEN end
    ELSE LET ch == At(s, end)
         IN  IF ch = "\"" THEN RangeEnd(s, end + 1, ~in_quotes)
             ELSE IF is_delim(ch) /\ ~in_quotes THEN end
             ELSE RangeEnd(s, end + 1, in_quotes)

\* the two clamps of find_token_range with the upper one sending the caret
\* to the start of the text
ClampCaretIndexToStart(caret_index, n) ==
    IF caret_index < 0 \/ caret_index > n THEN 0 ELSE caret_index

\* the two clamps that open find_token_range
ClampCaretIndex(caret_index, n) ==
    IF caret_index < 0 THEN 0 ELSE IF caret_index > n THEN n ELSE caret_index

TokenRangeAt(s, c) ==
    [start |-> RangeStart(s, c, FALSE), end |-> RangeEnd(s, c, FALSE)]

find_token_range(s, caret_index) == TokenRangeAt(s, ClampCaretIndex(caret_index, Len(s)))

\* urllib.parse.urlparse on a URL that starts with http:// or https://:
\* the netloc runs from after "//" to the first of / ? #, and a netloc with
\* one of [ ] but not the other raises ValueError("Invalid IPv6 URL").
RECURSIVE NetlocEnd(_, _)
NetlocEnd(url, j) ==
    IF j < Len(url) /\ At(url, j) \notin {"/", "?", "#"}
    THEN NetlocEnd(url, j + 1)
    ELSE j

urlparse(url) ==
    LET from == IF StartsWith(url, Tail(AtHttps)) THEN Len(AtHttps) - 1
                ELSE Len(AtHttp) - 1
        netloc == Slice(url, from, NetlocEnd(url, from))
    IN  [scheme |-> Slice(url, 0, from - 3),
         netloc |-> netloc,
         raises |-> Contains(netloc, "[") # Contains(netloc, "]")]

\* token_is_url_tag: "no" / "yes" / "raises" (the ValueError of urlparse)
token_is_url_tag(tok) ==
    IF ~(StartsWith(tok, AtHttp) \/ StartsWith(tok, AtHttps)) THEN "no"
    ELSE LET parsed == urlparse(Tail(tok))
         IN  IF parsed.raises THEN "raises"
             ELSE IF parsed.scheme # <<>> /\ parsed.netloc # <<>> THEN "yes"
             ELSE "no"

\* the two token scans of build_input_attributed_with_caret
RECURSIVE ScanQuoted(_, _)
ScanQuoted(s, i) ==
    IF i < Len(s) /\ At(s, i) # "\""
    THEN ScanQuoted(s, i + 1)
    ELSE IF i < Len(s) THEN i + 1 ELSE i

RECURSIVE ScanToDelim(_, _)
ScanToDelim(s, i) ==
    IF i < Len(s) /\ ~is_delim(At(s, i)) THEN ScanToDelim(s, i + 1) ELSE i

TokenEnd(s, i) ==
    IF StartsWithAt(s, AtQuote, i) THEN ScanQuoted(s, i + 2) ELSE ScanToDelim(s, i)

\* PillDecision with the shortcut rule not asking for a delimiter
PillDecisionShortcutAtEnd(token, delim_follows, registry, pre, url) ==
    IF token \in registry.shortcuts THEN "shortcut"
    ELSE IF ~StartsWith(token, <<"@">>) THEN "none"
    ELSE IF token \in pre.normal /\ token \notin pre.prefix_only /\ delim_follows
         THEN "exact"
    ELSE IF url = "raises" THEN "raises"
    ELSE IF url = "yes" /\ delim_follows THEN "url"
    ELSE IF (\E p \in pre.path_like : StartsWith(token, p)) /\ delim_follows
         THEN "path"
    ELSE "none"

\* the if/elif chain of the pill decision, given the prefix sets pre and the
\* answer url of token_is_url_tag: "shortcut", "exact", "url", "path",
\* "none", or "raises" when token_is_url_tag is reached and raises
PillDecision(token, delim_follows, registry, pre, url) ==
    IF token \in registry.shortcuts /\ delim_follows THEN "shortcut"
    ELSE IF ~StartsWith(token, <<"@">>) THEN "none"
    ELSE IF token \in pre.normal /\ token \notin pre.prefix_only /\ delim_follows
         THEN "exact"
    ELSE IF url = "raises" THEN "raises"
    ELSE IF url = "yes" /\ delim_follows THEN "url"
    ELSE IF (\E p \in pre.path_like : StartsWith(token, p)) /\ delim_follows
         THEN "path"
    ELSE "none"

PillRule(token, next_delim, registry) ==
    PillDecision(token, next_delim \in {" ", "\n", "\t"}, registry,
                 _collect_prefixes(registry.plugins), token_is_url_tag(token))

\* one element of an attributed string
PlainChar(ch) == [ch |-> ch, tag |-> None, label |-> None]

\* build_tag_attributed: the attachment character with the raw text attached
build_tag_attributed(raw_text, display_text) ==
    [ch |-> OBJ, tag |-> raw_text, label |-> display_text]

IsPill(e) == e.ch = OBJ /\ e.tag # None

\* append_plain(s)
append_plain(result, s) == result \o [k \in 1..Len(s) |-> PlainChar(s[k])]

\* one turn of the main loop on a delimiter: the locals after it
DelimStep(s, caret_plain_index, st, before_len, plain_index) ==
    [st EXCEPT
        !.result = append_plain(@, <<At(s, st.i)>>),
        !.i = @ + 1,
        !.plain_index = plain_index,
        !.caret_attr_index =
            IF ~st.caret_set /\ caret_plain_index = plain_index
            THEN before_len + 1 ELSE @,
        !.caret_set = @ \/ caret_plain_index = plain_index]

\* CaretInToken with the token's right edge left out
CaretInTokenOpen(st, caret_plain_index, token_plain_len) ==
    /\ ~st.caret_set
    /\ st.plain_index <= caret_plain_index
    /\ caret_plain_index < st.plain_index + token_plain_len

\* does the caret fall in the token that starts at plain_index (unlatched)
CaretInToken(st, caret_plain_index, token_plain_len) ==
    /\ ~st.caret_set
    /\ st.plain_index <= caret_plain_index
    /\ caret_plain_index <= st.plain_index + token_plain_len

\* one turn of the main loop on the token s[st.i : i] decided by rule
TokenStep(s, registry, caret_plain_index, st, i, rule, before_len) ==
    IF rule = "raises" THEN [st EXCEPT !.raised = TRUE]
    ELSE IF rule # "none" THEN
        [st EXCEPT
            !.result = Append(@, build_tag_attributed(Slice(s, st.i, i),
                IF rule = "shortcut" THEN Slice(s, st.i, i)
                ELSE display_string_for_tag(Slice(s, st.i, i), registry.plugins))),
            !.i = i,
            !.plain_index = @ + (i - st.i),
            !.caret_attr_index =
                IF CaretInToken(st, caret_plain_index, i - st.i)
                THEN before_len + 1 ELSE @,
            !.caret_set = @ \/ CaretInToken(st, caret_plain_index, i - st.i)]
    ELSE
        [st EXCEPT
            !.result = append_plain(@, Slice(s, st.i, i)),
            !.i = i,
            !.plain_index = @ + (i - st.i),
            !.caret_attr_index =
                IF CaretInToken(st, caret_plain_index, i - st.i)
                THEN before_len + (caret_plain_index - st.plain_index) ELSE @,
            !.caret_set = @ \/ CaretInToken(st, caret_plain_index, i - st.i)]

\* text[i] if i < len(text) else None
NextDelim(s, i) == IF i < Len(s) THEN At(s, i) ELSE "None"

\* the token that starts at st.i: scanned to i, decided, emitted
TokenTurn(s, registry, caret_plain_index, st, i) ==
    TokenStep(s, registry, caret_plain_index, st, i,
              PillRule(Slice(s, st.i, i), NextDelim(s, i), registry),
              Len(st.result))

\* the main loop, with the loop's locals in st
RECURSIVE RenderLoop(_, _, _, _)
RenderLoop(s, registry, caret_plain_index, st) ==
    IF st.raised \/ st.i >= Len(s) THEN st
    ELSE IF is_delim(At(s, st.i))
    THEN RenderLoop(s, registry, caret_plain_index,
             DelimStep(s, caret_plain_index, st, Len(st.result), st.plain_index + 1))
    ELSE RenderLoop(s, registry, caret_plain_index,
             TokenTurn(s, registry, caret_plain_index, st, TokenEnd(s, st.i)))

\* the clamp that ends the function
ClampCaret(st) ==
    [raised |-> st.raised,
     result |-> st.result,
     caret_attr_index |->
        IF ~st.caret_set \/ st.caret_attr_index > Len(st.result)
        THEN Len(st.result) ELSE st.caret_attr_index]

\* build_input_attributed_with_caret: (result, caret_attr_index), or raised
build_input_attributed_with_caret(s, registry, caret_plain_index) ==
    ClampCaret(RenderLoop(s, registry, caret_plain_index,
        [result |-> <<>>, i |-> 0, plain_index |-> 0,
         caret_attr_index |-> 0, caret_set |-> FALSE, raised |-> FALSE]))

\* render_text_with_pills: what the history view shows for a token, a pill
\* with its label or the token as plain text (history pills store no tag)
HistoryPill(disp) == [ch |-> OBJ, tag |-> None, label |-> disp]

HistoryToken(token, registry, pre) ==
    IF token \in registry.shortcuts THEN <<HistoryPill(token)>>
    ELSE IF /\ StartsWith(token, <<"@">>)
            /\ \/ \E p \in pre.normal : StartsWith(token, p)
               \/ \E p \in pre.path_like : StartsWith(token, p)
    THEN <<HistoryPill(display_string_for_tag(token, registry.plugins))>>
    ELSE [k \in 1..Len(token) |-> PlainChar(token[k])]

\* the loop of render_text_with_pills from offset i
RECURSIVE HistoryLoop(_, _, _, _, _)
HistoryLoop(s, registry, pre, i, result) ==
    IF i >= Len(s) THEN result
    ELSE IF is_delim(At(s, i))
    THEN HistoryLoop(s, registry, pre, i + 1, Append(result, PlainChar(At(s, i))))
    ELSE HistoryLoop(s, registry, pre, find_token_range(s, i).end,
             result \o HistoryToken(Slice(s, find_token_range(s, i).start,
                                          find_token_range(s, i).end),
                                    registry, pre))

render_text_with_pills(s, registry) ==
    HistoryLoop(s, registry, _collect_prefixes(registry.plugins), 0, <<>>)

----------------------------------------------------------------------------
(* input_field.py *)

\* result[-1].endswith((" ", "\n", "\t")) on the list of appended pieces
LastEndsWithDelim(pieces) ==
    LET last == pieces[Len(pieces)]
    IN  last # <<>> /\ is_delim(last[Len(last)])

\* ExpandPill with the look-ahead forgotten: a trailing space after every pill
ExpandPillAlwaysTrail(buf, idx, res, e) ==
    (IF res # <<>> /\ ~LastEndsWithDelim(res) THEN Append(res, <<" ">>) ELSE res)
    \o <<e.tag>> \o << <<" ">> >>

\* ExpandPill with the trailing space forgotten
ExpandPillNoTrail(buf, idx, res, e) ==
    (IF res # <<>> /\ ~LastEndsWithDelim(res) THEN Append(res, <<" ">>) ELSE res)
    \o <<e.tag>>

\* the pieces appended for a pill: a leading space when the last piece does
\* not end in whitespace, the tag text, a trailing space when a character
\* follows that is not whitespace
ExpandPill(buf, idx, res, e) ==
    (IF res # <<>> /\ ~LastEndsWithDelim(res) THEN Append(res, <<" ">>) ELSE res)
    \o <<e.tag>>
    \o (IF idx + 1 < Len(buf) /\ ~is_delim(At(buf, idx + 1).ch)
        THEN << <<" ">> >> ELSE <<>>)

\* the loop of _plain_text_from_view over raw_str[idx:], result so far in res
PlainStep(buf, idx, res, e) ==
    IF e.ch = OBJ
    THEN IF e.tag = None THEN res ELSE ExpandPill(buf, idx, res, e)
    ELSE Append(res, <<e.ch>>)

RECURSIVE PlainLoop(_, _, _)
PlainLoop(buf, idx, res) ==
    IF idx >= Len(buf) THEN res
    ELSE PlainLoop(buf, idx + 1, PlainStep(buf, idx, res, At(buf, idx)))

\* str.strip()
RECURSIVE LStrip(_)
LStrip(s) == IF s # <<>> /\ is_delim(Head(s)) THEN LStrip(Tail(s)) ELSE s

RECURSIVE RStrip(_)
RStrip(s) ==
    IF s # <<>> /\ is_delim(s[Len(s)]) THEN RStrip(SubSeq(s, 1, Len(s) - 1)) ELSE s

_plain_text_from_view(buf, strip_ends) ==
    LET joined == Concat(PlainLoop(buf, 0, <<>>))
    IN  IF strip_ends THEN RStrip(LStrip(joined)) ELSE joined

\* the caret_plain loop of _rebuild_buffer_with_pills over raw_str[:location]
RECURSIVE CaretPlain(_, _)
CaretPlain(buf, location) ==
    IF location <= 0 \/ buf = <<>> THEN 0
    ELSE LET n == IF location > Len(buf) THEN Len(buf) ELSE location
             e == buf[n]
         IN  CaretPlain(buf, n - 1)
             + (IF e.ch = OBJ THEN (IF e.tag # None THEN Len(e.tag) ELSE 0) ELSE 1)

\* _rebuild_buffer_with_pills: the storage and selection it leaves, with the
\* arguments it passed to the render pass; an exception of the pass leaves
\* the view as it was (textDidChange_ catches it)
RebuildResult(buf, location, plain_, caret_plain, built) ==
    [plain |-> plain_,
     caret_plain |-> caret_plain,
     raised |-> built.raised,
     storage |-> IF built.raised THEN buf ELSE built.result,
     sel |-> IF built.raised THEN location ELSE built.caret_attr_index]

RebuildWith(buf, location, registry, plain_, caret_plain) ==
    RebuildResult(buf, location, plain_, caret_plain,
        build_input_attributed_with_caret(plain_, registry, caret_plain))

_rebuild_buffer_with_pills(buf, location, registry) ==
    RebuildWith(buf, location, registry,
        _plain_text_from_view(buf, FALSE), CaretPlain(buf, location))

\* the leftward scan of _current_fragment from start, quote state in_quotes
RECURSIVE FragmentStart(_, _, _)
FragmentStart(full_text, start, in_quotes) ==
    IF start <= 0 THEN start
    ELSE LET ch == At(full_text, start - 1)
         IN  IF ch = "\"" THEN FragmentStart(full_text, start - 1, ~in_quotes)
             ELSE IF is_delim(ch) /\ ~in_quotes THEN start
             ELSE FragmentStart(full_text, start - 1, in_quotes)

Clamp(cursor, n) == IF cursor > n THEN n ELSE IF cursor < 0 THEN 0 ELSE cursor

_current_fragment(full_text, cursor) ==
    LET c == Clamp(cursor, Len(full_text))
    IN  Slice(full_text, FragmentStart(full_text, c, FALSE), c)

\* autocomplete.current_selection() with nothing selected (None)
NoSelection == [raw |-> None, display |-> None]

\* text_view.string(): the characters of the storage, a pill being U+FFFC
StringOf(buf) == [k \in 1..Len(buf) |-> buf[k].ch]

\* the early returns of textDidChange_ with the latch not looked at
SuppressedMarkedOnly(rebuilding, marked) == marked

\* the early returns of textDidChange_: the latch, then the IME guard
Suppressed(rebuilding, marked) == rebuilding \/ marked

\* _insert_tag: the fragment before the caret replaced by the attachment,
\* the caret put right after it
_insert_tag(buf, location, tag) ==
    LET fragment_ == _current_fragment(StringOf(buf), location)
        replace_start == location - Len(fragment_)
    IN  [storage |-> SubSeq(buf, 1, replace_start)
                     \o <<build_tag_attributed(tag.raw, tag.display)>>
                     \o SubSeq(buf, location + 1, Len(buf)),
         sel |-> replace_start + 1]

\* the insertTab: branch: the fragment replaced by the raw text of the tag,
\* without its closing quote, the caret put at its end
InsertRawEdit(buf, location, tag) ==
    LET raw_edit == IF EndsWith(tag.raw, <<"\"">>)
                       /\ (StartsWith(tag.raw, AtQuote) \/ StartsWith(tag.raw, <<"/", "\"">>))
                    THEN SubSeq(tag.raw, 1, Len(tag.raw) - 1)
                    ELSE tag.raw
        fragment_ == _current_fragment(StringOf(buf), location)
        replace_start == location - Len(fragment_)
    IN  [storage |-> SubSeq(buf, 1, replace_start)
                     \o [k \in 1..Len(raw_edit) |-> PlainChar(raw_edit[k])]
                     \o SubSeq(buf, location + 1, Len(buf)),
         sel |-> replace_start + Len(raw_edit)]

\* what NSTextView does with a command the delegate did not consume
DefaultCommand(buf, location, commandSelector) ==
    IF commandSelector = "deleteBackward:" /\ location > 0
    THEN [storage |-> SubSeq(buf, 1, location - 1) \o SubSeq(buf, location + 1, Len(buf)),
          sel |-> location - 1, changed |-> TRUE]
    ELSE IF commandSelector = "moveLeft:" /\ location > 0
    THEN [storage |-> buf, sel |-> location - 1, changed |-> FALSE]
    ELSE [storage |-> buf, sel |-> location, changed |-> FALSE]

\* textView_doCommandBySelector_ with every command submitting, popup or not
CommandResultAlwaysSubmits(commandSelector, selection, buf, location, vis) ==
    [handled |-> TRUE, submit |-> TRUE, storage |-> buf, sel |-> location,
     then |-> "return", update |-> FALSE, hide |-> FALSE]

\* the branches of textView_doCommandBySelector_: is the command consumed,
\* is the message submitted, the view it leaves, the call it goes on with,
\* whether update_suggestions and hide are called
CommandResult(commandSelector, selection, buf, location, vis) ==
    LET stay == [handled |-> TRUE, submit |-> FALSE, storage |-> buf, sel |-> location,
                 then |-> "return", update |-> FALSE, hide |-> FALSE]
    IN  IF vis
        THEN IF commandSelector = "insertNewline:"
             THEN IF selection # NoSelection
                  THEN [stay EXCEPT !.storage = _insert_tag(buf, location, selection).storage,
                                    !.sel = _insert_tag(buf, location, selection).sel,
                                    !.then = "insertText_"]
                  ELSE stay
             ELSE IF commandSelector = "insertTab:"
             THEN IF selection # NoSelection
                  THEN [stay EXCEPT !.storage = InsertRawEdit(buf, location, selection).storage,
                                    !.sel = InsertRawEdit(buf, location, selection).sel,
                                    !.update = TRUE]
                  ELSE stay
             ELSE IF commandSelector \in {"moveUp:", "moveDown:"} THEN stay
             ELSE IF commandSelector = "cancelOperation:" THEN [stay EXCEPT !.hide = TRUE]
             ELSE [stay EXCEPT !.handled = FALSE]
        ELSE IF commandSelector = "moveUp:"
             THEN [stay EXCEPT !.handled = ~Contains(SubSeq(StringOf(buf), 1, location), "\n")]
             \* 'in' on the string 'insertNewline:': of the selectors NSTextView
             \* sends, only insertNewline: is a substring of it
             ELSE IF commandSelector \in {"insertNewline:"}
             THEN [stay EXCEPT !.submit = TRUE]
             ELSE IF commandSelector = "cancelOperation:" THEN stay
             ELSE [stay EXCEPT !.handled = FALSE]

----------------------------------------------------------------------------
(* Inputs. *)

\* what plain texts are made of: two delimiters, a shortcut, a closed quoted
\* path that holds a space, a lone quote, a protocol prefix, a letter, an
\* opening bracket, a lone tag sign
Pieces ==
    {<<" ">>, <<"\n">>, <<"/", "b">>, <<"@", "\"", "/", " ", "\"">>, <<"\"">>,
     AtHttp, <<"c">>, <<"[">>, <<"@">>}

FragPieces == {<<" ">>, <<"\"">>, <<"@">>, <<"c">>}

RECURSIVE TextsOf(_, _)
TextsOf(pieces, n) ==
    IF n = 0 THEN {<<>>}
    ELSE LET shorter == TextsOf(pieces, n - 1)
         IN  shorter \cup {t \o p : t \in shorter, p \in pieces}

\* the elements a hand-edited storage is made of: typed characters, pills
\* inserted from the popup, an attachment that carries no tag
StorageElements ==
    {PlainChar(" "), PlainChar("\n"), PlainChar("c"), PlainChar(OBJ),
     build_tag_attributed(<<"/", "b">>, <<"/", "b">>),
     build_tag_attributed(<<"@", "c">>, <<"c", "l", "i", "p">>)}

RECURSIVE StoragesOf(_)
StoragesOf(n) ==
    IF n = 0 THEN {<<>>}
    ELSE LET shorter == StoragesOf(n - 1)
         IN  shorter \cup {Append(b, e) : b \in shorter, e \in StorageElements}

\* raw texts of the pills of a buffer, in order
PillsOf(buf) == SelectSeq(buf, IsPill)

RawsOf(buf) == [k \in 1..Len(PillsOf(buf)) |-> PillsOf(buf)[k].tag]

----------------------------------------------------------------------------
(* The state machine. *)

\* the delegate after initWithTextView_, nothing typed yet
NoCommand ==
    [selector |-> "none", visible |-> FALSE, storage |-> <<>>, sel |-> 0,
     selection |-> NoSelection, handled |-> FALSE]

HostBlank ==
    /\ _rebuilding = FALSE
    /\ stack = <<>>
    /\ visible = FALSE
    /\ cmd = NoCommand
    /\ submitted = 0
    /\ updates = 0
    /\ events = 0
    /\ outcome = "none"
    /\ token_range = [start |-> 0, end |-> 0]
    /\ history = <<>>

Blank ==
    /\ HostBlank
    /\ storage = <<>>
    /\ sel = 0
    /\ err = FALSE
    /\ plain = <<>>
    /\ pills1 = <<>>
    /\ sel0 = 0
    /\ fragment = <<>>

\* a render pass about to run on any text, caret and registry
InitRender ==
    /\ pc = "start"
    /\ text \in TextsOf(Pieces, MaxPieces)
    /\ caret \in (-1)..(Len(text) + 1)
    /\ reg \in Registries
    /\ Blank

\* the same with the caret at the start: the user places it after the pass
InitRebuild ==
    /\ InitRender
    /\ caret = 0

\* the host about to ask for the fragment before the caret
InitFragment ==
    /\ pc = "typing"
    /\ text \in TextsOf(FragPieces, MaxFragPieces)
    /\ caret \in (-1)..(Len(text) + 1)
    /\ reg = RegUsual
    /\ Blank

\* the host about to ask for the fragment and the token range at a caret
\* that may lie outside the text
InitRange ==
    /\ pc = "typing"
    /\ text \in TextsOf(FragPieces, MaxFragPieces)
    /\ caret \in (0 - MaxOutside)..(Len(text) + MaxOutside)
    /\ reg = RegUsual
    /\ Blank

\* a storage the user has edited by hand, caret anywhere in it
InitStorage ==
    /\ pc = "edited"
    /\ storage \in StoragesOf(MaxStorage)
    /\ sel \in 0..Len(storage)
    /\ reg \in Registries
    /\ text = <<>> /\ caret = 0 /\ err = FALSE /\ plain = <<>>
    /\ pills1 = RawsOf(storage) /\ sel0 = sel /\ fragment = <<>>
    /\ HostBlank

\* the input field, empty, the delegate waiting for the first event
InitHost ==
    /\ pc = "host"
    /\ text = <<>>
    /\ caret = 0
    /\ reg = RegUsual
    /\ Blank

\* a render pass about to run with a plugin list in which a plugin fails
InitFaulty ==
    /\ pc = "start"
    /\ text \in TextsOf(Pieces, MaxPieces)
    /\ caret \in 0..Len(text)
    /\ reg \in FaultyRegistries
    /\ Blank

\* build_input_attributed_with_caret(text, ..., caret) and its result put
\* into the view (setAttributedString_, setSelectedRange_)
Render ==
    /\ pc = "start"
    /\ \E built \in {build_input_attributed_with_caret(text, reg, caret)} :
           /\ pc' = IF built.raised THEN "failed" ELSE "rendered"
           /\ err' = built.raised
           /\ storage' = IF built.raised THEN storage ELSE built.result
           /\ sel' = IF built.raised THEN sel ELSE built.caret_attr_index
           /\ pills1' = IF built.raised THEN pills1 ELSE RawsOf(built.result)
    /\ UNCHANGED <<text, caret, reg, plain, sel0, fragment>>
    /\ UNCHANGED <<hostVars, token_range, history>>

\* the user moves the caret in the rendered buffer
SetSelectedRange ==
    /\ pc = "rendered"
    /\ \E location \in 0..Len(storage) :
        /\ sel' = location
        /\ sel0' = location
    /\ pc' = "placed"
    /\ UNCHANGED <<text, caret, reg, storage, err, plain, pills1, fragment>>
    /\ UNCHANGED <<hostVars, token_range, history>>

\* _plain_text_from_view(strip_ends=False)
PlainTextFromView ==
    /\ pc \in {"rendered", "edited"}
    /\ plain' = _plain_text_from_view(storage, FALSE)
    /\ pc' = "plained"
    /\ UNCHANGED <<text, caret, reg, storage, sel, err, pills1, sel0, fragment>>
    /\ UNCHANGED <<hostVars, token_range, history>>

\* _rebuild_buffer_with_pills with no edit since the last pass
Rebuild ==
    /\ pc \in {"plained", "placed", "rebuilt"}
    /\ \E r \in {_rebuild_buffer_with_pills(storage, sel, reg)} :
           /\ plain' = r.plain
           /\ text' = r.plain
           /\ caret' = r.caret_plain
           /\ err' = r.raised
           /\ storage' = r.storage
           /\ sel' = r.sel
           /\ pc' = IF r.raised THEN "failed" ELSE "rebuilt"
    /\ UNCHANGED <<reg, pills1, sel0, fragment>>
    /\ UNCHANGED <<hostVars, token_range, history>>

\* _current_fragment() on the view's string and caret
CurrentFragment ==
    /\ pc = "typing"
    /\ fragment' = _current_fragment(text, caret)
    /\ pc' = "fragment"
    /\ UNCHANGED <<text, caret, reg, storage, sel, err, plain, pills1, sel0>>
    /\ UNCHANGED <<hostVars, token_range, history>>

\* find_token_range(text, caret), after the fragment or instead of it
FindTokenRange ==
    /\ pc \in {"typing", "fragment"}
    /\ token_range' = find_token_range(text, caret)
    /\ pc' = IF pc = "fragment" THEN "both" ELSE "ranged"
    /\ UNCHANGED <<text, caret, reg, storage, sel, err, plain, pills1, sel0, fragment>>
    /\ UNCHANGED <<hostVars, history>>

NextRange == CurrentFragment \/ FindTokenRange

\* render_text_with_pills(text, ...): the history view shows the text that
\* the input field has rendered
RenderHistory ==
    /\ pc = "rendered"
    /\ history' = render_text_with_pills(text, reg)
    /\ pc' = "shown"
    /\ UNCHANGED <<text, caret, reg, storage, sel, err, plain, pills1, sel0, fragment>>
    /\ UNCHANGED <<hostVars, token_range>>

NextHistory == Render \/ RenderHistory

\* the handler frames on the stack
Frame(fn, at) ==
    [fn |-> fn, at |-> at, attr_str |-> <<>>, caret_attr |-> 0, exc |-> FALSE]

Top == stack[Len(stack)]

Pop == SubSeq(stack, 1, Len(stack) - 1)

Goto(at) == [stack EXCEPT ![Len(stack)].at = at]

Running(fn, at) == pc = "host" /\ stack # <<>> /\ Top.fn = fn /\ Top.at = at

\* the characters the user types and the entries the popup offers
Typed == {"@", "c", " "}

Selections ==
    {NoSelection,
     [raw |-> <<"@", "c">>, display |-> <<"c", "l", "i", "p">>],
     [raw |-> <<"/", "b">>, display |-> <<"/", "b">>]}

Commands ==
    {"insertNewline:", "insertTab:", "moveUp:", "moveDown:", "cancelOperation:",
     "deleteBackward:", "moveLeft:"}

\* the user types a character: NSTextView inserts it at the caret and
\* notifies the delegate
keyDown ==
    /\ pc = "host" /\ stack = <<>>
    /\ events < MaxEvents
    /\ \E ch \in Typed :
        storage' = SubSeq(storage, 1, sel) \o <<PlainChar(ch)>>
                   \o SubSeq(storage, sel + 1, Len(storage))
    /\ sel' = sel + 1
    /\ events' = events + 1
    /\ stack' = <<Frame("textDidChange_", "delivered")>>
    /\ cmd' = NoCommand
    /\ UNCHANGED <<codecVars, fragment, _rebuilding, visible, submitted, updates, outcome>>

\* textDidChange_ up to the call of _rebuild_buffer_with_pills (lines 49-59)
textDidChange_ ==
    /\ Running("textDidChange_", "delivered")
    /\ \E marked \in BOOLEAN, shown \in BOOLEAN :
        IF Suppressed(_rebuilding, marked)
        THEN /\ stack' = Pop
             /\ outcome' = IF _rebuilding THEN "latched" ELSE "marked"
             /\ UNCHANGED <<fragment, updates, visible>>
        ELSE /\ fragment' = _current_fragment(StringOf(storage), sel)
             /\ updates' = (updates + 1) % 2
             /\ visible' = shown
             /\ stack' = Goto("build")
             /\ outcome' = "processed"
    /\ UNCHANGED <<codecVars, storage, sel, _rebuilding, cmd, submitted, events>>

\* _rebuild_buffer_with_pills up to the latch being set (lines 293-321); an
\* exception of the render pass goes to the except of textDidChange_
RebuildBuild ==
    /\ Running("textDidChange_", "build")
    /\ \E r \in {_rebuild_buffer_with_pills(storage, sel, reg)} :
        IF r.raised
        THEN /\ stack' = Pop
             /\ UNCHANGED _rebuilding
        ELSE /\ stack' = [stack EXCEPT ![Len(stack)] =
                               [Top EXCEPT !.at = "beginEditing",
                                           !.attr_str = r.storage,
                                           !.caret_attr = r.sel]]
             /\ _rebuilding' = TRUE
    /\ UNCHANGED <<codecVars, fragment, storage, sel, visible, cmd, submitted, updates,
                   events, outcome>>

\* ts.beginEditing() (line 322), outside the try
beginEditing ==
    /\ Running("textDidChange_", "beginEditing")
    /\ \E raises \in BOOLEAN :
        stack' = IF raises THEN Pop ELSE Goto("setAttributedString_")
    /\ UNCHANGED <<codecVars, fragment, storage, sel, _rebuilding, visible, cmd, submitted,
                   updates, events, outcome>>

\* ts.setAttributedString_(attr_str) (line 324), inside the try
setAttributedString_ ==
    /\ Running("textDidChange_", "setAttributedString_")
    /\ \E raises \in BOOLEAN :
        /\ storage' = IF raises THEN storage ELSE Top.attr_str
        /\ sel' = IF raises \/ sel <= Len(Top.attr_str) THEN sel ELSE Len(Top.attr_str)
        /\ stack' = [stack EXCEPT ![Len(stack)] =
                          [Top EXCEPT !.at = "endEditing", !.exc = raises]]
    /\ UNCHANGED <<codecVars, fragment, _rebuilding, visible, cmd, submitted, updates,
                   events, outcome>>

\* the finally block: ts.endEditing(), then the latch cleared (lines 326-327)
endEditing ==
    /\ Running("textDidChange_", "endEditing")
    /\ \E raises \in BOOLEAN :
        /\ _rebuilding' = IF raises THEN _rebuilding ELSE FALSE
        /\ stack' = IF raises \/ Top.exc THEN Pop ELSE Goto("setSelectedRange_")
    /\ UNCHANGED <<codecVars, fragment, storage, sel, visible, cmd, submitted, updates,
                   events, outcome>>

\* tv.setSelectedRange_(NSRange(caret_attr, 0)) (line 328), then the return
setSelectedRange_ ==
    /\ Running("textDidChange_", "setSelectedRange_")
    /\ sel' = Top.caret_attr
    /\ stack' = Pop
    /\ UNCHANGED <<codecVars, fragment, storage, _rebuilding, visible, cmd, submitted,
                   updates, events, outcome>>

\* a text-change notification delivered from inside the calls that replace
\* the content of the storage
NestedNotification ==
    /\ pc = "host" /\ stack # <<>>
    /\ Top.fn = "textDidChange_"
    /\ Top.at \in {"setAttributedString_", "endEditing"}
    /\ Len(stack) < MaxDepth
    /\ stack' = Append(stack, Frame("textDidChange_", "delivered"))
    /\ UNCHANGED <<codecVars, fragment, storage, sel, _rebuilding, visible, cmd, submitted,
                   updates, events, outcome>>

\* a key command arrives: textView_doCommandBySelector_ up to its return or
\* to the call of insertText_ (line 80); a command it does not consume is
\* carried out by the view, which notifies the delegate if the text changed
textView_doCommandBySelector_ ==
    /\ pc = "host" /\ stack = <<>>
    /\ events < MaxEvents
    /\ \E commandSelector \in Commands, selection \in Selections, shown \in BOOLEAN :
        \E r \in {CommandResult(commandSelector, selection, storage, sel, visible)} :
        \E d \in {DefaultCommand(r.storage, r.sel, commandSelector)} :
            /\ cmd' = [selector |-> commandSelector, visible |-> visible,
                       storage |-> storage, sel |-> sel, selection |-> selection,
                       handled |-> r.handled]
            /\ submitted' = IF r.submit THEN submitted + 1 ELSE submitted
            /\ updates' = IF r.update THEN (updates + 1) % 2 ELSE updates
            /\ visible' = IF r.hide THEN FALSE ELSE IF r.update THEN shown ELSE visible
            /\ storage' = IF r.handled THEN r.storage ELSE d.storage
            /\ sel' = IF r.handled THEN r.sel ELSE d.sel
            /\ stack' = IF r.then = "insertText_"
                        THEN <<Frame("textView_doCommandBySelector_", "insertText_")>>
                        ELSE IF ~r.handled /\ d.changed
                        THEN <<Frame("textDidChange_", "delivered")>>
                        ELSE <<>>
    /\ events' = events + 1
    /\ UNCHANGED <<codecVars, fragment, _rebuilding, outcome>>

\* self.text_view.insertText_(" ") under try/except (lines 79-82): the view
\* inserts the space and notifies the delegate, or the call raises
insertText_ ==
    /\ Running("textView_doCommandBySelector_", "insertText_")
    /\ \E raises \in BOOLEAN :
        /\ storage' = IF raises THEN storage
                      ELSE SubSeq(storage, 1, sel) \o <<PlainChar(" ")>>
                           \o SubSeq(storage, sel + 1, Len(storage))
        /\ sel' = IF raises THEN sel ELSE sel + 1
        /\ stack' = IF raises THEN Goto("hide")
                    ELSE Append(Goto("hide"), Frame("textDidChange_", "delivered"))
    /\ UNCHANGED <<codecVars, fragment, _rebuilding, visible, cmd, submitted, updates,
                   events, outcome>>

\* self.autocomplete.hide() and return True (lines 83-84)
hide ==
    /\ Running("textView_doCommandBySelector_", "hide")
    /\ visible' = FALSE
    /\ stack' = Pop
    /\ UNCHANGED <<codecVars, fragment, storage, sel, _rebuilding, cmd, submitted, updates,
                   events, outcome>>

NextHost ==
    \/ keyDown
    \/ textDidChange_
    \/ RebuildBuild
    \/ beginEditing
    \/ setAttributedString_
    \/ endEditing
    \/ setSelectedRange_
    \/ NestedNotification
    \/ textView_doCommandBySelector_
    \/ insertText_
    \/ hide

NextRender == Render \/ PlainTextFromView \/ Rebuild

NextRebuild == Render \/ SetSelectedRange \/ Rebuild

NextStorage == PlainTextFromView \/ Rebuild

\* render passes on arbitrary inputs, then plain extraction and a rebuild
Spec == InitRender /\ [][NextRender]_vars

\* a render pass, the caret placed anywhere, then repeated rebuilds
SpecRebuild == InitRebuild /\ [][NextRebuild]_vars

\* the fragment extractor on arbitrary texts and carets
SpecFragment == InitFragment /\ [][CurrentFragment]_vars

\* plain extraction and rebuild of hand-edited storages
SpecStorage == InitStorage /\ [][NextStorage]_vars

\* render passes, plain extraction and rebuild while a plugin fails
SpecFaulty == InitFaulty /\ [][NextRender]_vars

\* the fragment extractor and find_token_range on arbitrary texts, the caret
\* inside or outside the text
SpecRange == InitRange /\ [][NextRange]_vars

\* the same text rendered by the input pass, then by the history pass
SpecHistory == InitRebuild /\ [][NextHistory]_vars

\* the delegate handling keys typed, key commands and the notifications
\* they cause, every call into the text storage free to raise
SpecHost == InitHost /\ [][NextHost]_vars

----------------------------------------------------------------------------
(* Notions the claims are stated in. *)

\* the view holds the result of a render pass on (text, caret)
Rendered == pc \in {"rendered", "rebuilt"}

\* plain-space width of a rendered element, and the plain offset at which
\* element k starts
Width(e) == IF IsPill(e) THEN Len(e.tag) ELSE 1

RECURSIVE Offset(_, _)
Offset(buf, k) == IF k <= 1 THEN 0 ELSE Offset(buf, k - 1) + Width(buf[k - 1])

\* every element is a pill or a delimiter: the text held recognized,
\* whitespace-terminated tokens only
OnlyRecognized(buf) == \A k \in 1..Len(buf) : IsPill(buf[k]) \/ is_delim(buf[k].ch)

----------------------------------------------------------------------------
(* C1 *)

\* C1: round trip.  When a text holds only recognized tokens, each followed
\* by a delimiter, expanding the rendered buffer (strip_ends=False) gives
\* the text back, character for character (for every caret, 0 included).
RoundTrip ==
    (pc = "plained" /\ OnlyRecognized(storage)) => plain = text

\* a text with a pill in it went through render and to_plain
RoundTripWitness ==
    /\ pc = "plained"
    /\ OnlyRecognized(storage)
    /\ pills1 # <<>>
    /\ Len(storage) < Len(text)
    /\ plain = text

----------------------------------------------------------------------------
(* C2 *)

\* C2: idempotence.  Rendering the plain text extracted from a rendered
\* buffer gives the same pills (same raw texts, same order) as the first
\* pass.
Idempotence ==
    pc = "rebuilt" => RawsOf(storage) = pills1

----------------------------------------------------------------------------
(* C3 *)

\* C3: caret monotonicity.  For a fixed text the rendered caret does not
\* decrease as the plain caret goes from 0 to len(text).
CaretMonotone ==
    (pc = "rendered" /\ caret >= 0) =>
        \A c2 \in caret..Len(text) :
            sel <= build_input_attributed_with_caret(text, reg, c2).caret_attr_index

----------------------------------------------------------------------------
(* C4 *)

\* the caret lies in the closed plain span of the pill at element k
CaretOnPill(k) ==
    /\ IsPill(storage[k])
    /\ Offset(storage, k) <= caret
    /\ caret <= Offset(storage, k) + Len(storage[k].tag)

\* C4 as stated: a caret anywhere in [token_start, token_start+len(token)]
\* of a pill comes back as the index right after that pill.
PillAtomicity ==
    pc = "rendered" =>
        \A k \in 1..Len(storage) : CaretOnPill(k) => sel = k

\* C4 amended: a caret in (token_start, token_start+len(token)], or at
\* token_start = 0, comes back right after the pill; a caret at
\* token_start > 0 was latched by the span before the pill and comes back
\* right before it.  It is never anywhere else.
PillAtomicityLatched ==
    pc = "rendered" =>
        \A k \in 1..Len(storage) :
            CaretOnPill(k) =>
                IF caret = Offset(storage, k) /\ caret > 0
                THEN sel = k - 1
                ELSE sel = k

\* a caret strictly inside the raw text of a pill that is not the first
\* element was pushed to the pill's right edge
PillAtomicityWitness ==
    /\ pc = "rendered"
    /\ \E k \in 2..Len(storage) :
        /\ IsPill(storage[k])
        /\ Offset(storage, k) < caret
        /\ caret < Offset(storage, k) + Len(storage[k].tag)
        /\ sel = k

----------------------------------------------------------------------------
(* C5 *)

\* C5: a render pass raises no error and returns a caret in
\* [0, rendered length], whatever the text and the caret.
RenderAlwaysReturns ==
    pc \in {"rendered", "failed"} =>
        /\ ~err
        /\ 0 <= sel /\ sel <= Len(storage)

----------------------------------------------------------------------------
(* C6 *)

\* C6: in the output of a render pass every pill is immediately followed by
\* a delimiter character, and the text's last character, when a token
\* reaches the end of the buffer, is emitted as a plain character.
PillNeedsDelimiter ==
    Rendered =>
        /\ \A k \in 1..Len(storage) :
            IsPill(storage[k]) =>
                k < Len(storage) /\ storage[k + 1] \in {PlainChar(d) : d \in {" ", "\n", "\t"}}
        /\ text # <<>> => storage[Len(storage)] = PlainChar(text[Len(text)])

\* a shortcut followed by a space became a pill while the same shortcut at
\* the end of the buffer stayed plain
PillNeedsDelimiterWitness ==
    /\ pc = "rendered"
    /\ pills1 = << <<"/", "b">> >>
    /\ EndsWith(text, <<"/", "b">>)
    /\ storage[Len(storage)] = PlainChar("b")

----------------------------------------------------------------------------
(* C7 *)

\* number of quotes in the first c characters, and the place (from 1) of
\* the last of them
QuotesBefore(s, c) == Cardinality({k \in 1..c : s[k] = "\""})

LastQuoteBefore(s, c) ==
    CHOOSE k \in 1..c : s[k] = "\"" /\ \A j \in (k + 1)..c : s[j] # "\""

\* C7: with an odd number of quotes left of the caret, the delimiters after
\* the opening quote do not stop the scan: the fragment reaches back at
\* least to that quote (fragment_before('@"foo bar', 9) = '@"foo bar').
OpenQuoteFragment ==
    (pc = "fragment" /\ QuotesBefore(text, Clamp(caret, Len(text))) % 2 = 1) =>
        Len(fragment) >=
            Clamp(caret, Len(text)) - LastQuoteBefore(text, Clamp(caret, Len(text))) + 1

----------------------------------------------------------------------------
(* C8 *)

\* what one element contributes to the plain text, by the rule of the claim:
\* a pill gives its raw text, with one space before iff a character was
\* emitted before it and that character is no delimiter, and one space
\* after iff an element follows that is no delimiter
RECURSIVE Expansion(_, _)
EmittedBefore(buf, k) == Concat([j \in 1..(k - 1) |-> Expansion(buf, j)])

Expansion(buf, k) ==
    IF IsPill(buf[k]) THEN
        (IF EmittedBefore(buf, k) # <<>>
            /\ ~is_delim(EmittedBefore(buf, k)[Len(EmittedBefore(buf, k))])
         THEN <<" ">> ELSE <<>>)
        \o buf[k].tag
        \o (IF k < Len(buf) /\ ~is_delim(buf[k + 1].ch) THEN <<" ">> ELSE <<>>)
    ELSE IF buf[k].ch = OBJ THEN <<>>
    ELSE <<buf[k].ch>>

RECURSIVE JoinWithSpaces(_)
JoinWithSpaces(raws) ==
    IF raws = <<>> THEN <<>>
    ELSE IF Len(raws) = 1 THEN raws[1]
    ELSE raws[1] \o <<" ">> \o JoinWithSpaces(Tail(raws))

\* C8: word-boundary spacing of to_plain.  The plain text is the
\* concatenation of the elements' expansions by the rule above; pills
\* standing back to back come out separated by exactly one space; a pill
\* at the start or the end of the buffer gets no space on that side.
PillSpacing ==
    pc = "plained" =>
        /\ plain = EmittedBefore(storage, Len(storage) + 1)
        /\ (\A k \in 1..Len(storage) : IsPill(storage[k])) =>
                plain = JoinWithSpaces(RawsOf(storage))
        /\ (storage # <<>> /\ IsPill(storage[1])) =>
                StartsWith(plain, storage[1].tag)
        /\ (storage # <<>> /\ IsPill(storage[Len(storage)])) =>
                EndsWith(plain, storage[Len(storage)].tag)

\* a letter, two pills back to back and a letter were expanded: one space
\* on each side of each pill
PillSpacingWitness ==
    /\ pc = "plained"
    /\ Len(storage) = 4
    /\ storage[1] = PlainChar("c")
    /\ IsPill(storage[2]) /\ IsPill(storage[3])
    /\ storage[4] = PlainChar("c")
    /\ plain = <<"c", " ">> \o storage[2].tag \o <<" ">> \o storage[3].tag \o <<" ", "c">>

----------------------------------------------------------------------------
(* C9 *)

\* C9: caret stability.  Rebuilding a buffer that render produced, with no
\* edit in between, leaves the caret where the user had put it, however
\* many times it is repeated.
CaretStable ==
    pc = "rebuilt" => sel = sel0

----------------------------------------------------------------------------
(* C10 *)

\* the pill's raw text begins with a registered prefix that ends in "://"
OnProtocolPrefix(e, registry) ==
    /\ IsPill(e)
    /\ \E pr \in _collect_prefixes(registry.plugins).normal :
        EndsWith(pr, ProtocolSep) /\ StartsWith(e.tag, pr)

\* the URL-tag rule's condition on a raw text: an http(s) prefix and a
\* non-empty authority after it
IsUrlTag(raw) ==
    \E pr \in {AtHttp, AtHttps} :
        /\ StartsWith(raw, pr)
        /\ Len(raw) > Len(pr)
        /\ raw[Len(pr) + 1] \notin {"/", "?", "#"}

----------------------------------------------------------------------------
(* C11 *)

\* C11: plugin failure never aborts a render pass.  With a plugin list in
\* which a plugin's get_prefixes, PATH_PREFIXES or display_string raises, the
\* render pass still returns a buffer and a caret.
PluginFailureNeverAborts ==
    reg \in FaultyRegistries => pc # "failed"

\* what does hold: a pass that fails under a faulty plugin list fails under
\* the usual one too, so the exception is never a plugin's
PluginFailureContained ==
    (reg \in FaultyRegistries /\ pc = "failed") =>
        build_input_attributed_with_caret(text, RegUsual, caret).raised

\* the first plugin of the list that claims raw_tag (0 when there is none)
Claimant(plugins, raw_tag) ==
    LET ks == {k \in 1..Len(plugins) : PluginMatches(plugins[k], raw_tag)}
    IN  IF ks = {} THEN 0 ELSE CHOOSE k \in ks : \A j \in ks : k <= j

\* and: a pill whose label lookup raises, or that no plugin claims, shows
\* its raw text, and the other pills show their plugins' labels
FaultyPillLabels ==
    (reg \in FaultyRegistries /\ Rendered) =>
        \A k \in 1..Len(storage) :
            (IsPill(storage[k]) /\ storage[k].tag \notin reg.shortcuts) =>
                LET c == Claimant(reg.plugins, storage[k].tag)
                IN  storage[k].label =
                        IF c = 0 \/ "display_string" \in reg.plugins[c].raises
                        THEN storage[k].tag
                        ELSE reg.plugins[c].label

----------------------------------------------------------------------------
(* C12 *)

\* the render passes in progress: the textDidChange_ handlers that are past
\* their guards and have not returned
RenderPasses ==
    Cardinality({k \in 1..Len(stack) :
                    stack[k].fn = "textDidChange_" /\ stack[k].at # "delivered"})

\* C12: no re-entrant render pass.  A text-change notification delivered
\* while the latch _rebuilding is set returns at once: it starts no render
\* pass, makes no autocomplete update and leaves buffer and caret as they
\* are; and at no time is more than one render pass in progress.
NoReentrantPass ==
    /\ [][(Running("textDidChange_", "delivered") /\ _rebuilding) =>
              /\ stack' = Pop
              /\ UNCHANGED <<storage, sel, updates, visible, fragment>>]_vars
    /\ [](RenderPasses <= 1)

\* the first key typed is being rendered, its buffer is in place, and a
\* notification delivered from inside the replacement has come back from
\* the latch
NoReentrantPassWitness ==
    /\ events = 1
    /\ Running("textDidChange_", "endEditing")
    /\ _rebuilding
    /\ outcome = "latched"
    /\ storage = Top.attr_str
    /\ RenderPasses = 1

----------------------------------------------------------------------------
(* C13 *)

\* the offsets at which the tokenizer of the render pass starts a token
RECURSIVE TokenStarts(_, _)
TokenStarts(s, i) ==
    IF i >= Len(s) THEN {}
    ELSE IF is_delim(At(s, i)) THEN TokenStarts(s, i + 1)
    ELSE {i} \cup TokenStarts(s, TokenEnd(s, i))

\* C13: the render tokenizer and token_range share one quote-aware scanning
\* rule.  At every offset i where the render tokenizer starts a token, the
\* token it scans is text[i : token_range(text, i).end].
SharedScanningRule ==
    Rendered =>
        \A i \in TokenStarts(text, 0) :
            TokenEnd(text, i) = find_token_range(text, i).end

\* what does hold: the two scans agree on every token that holds no quote
\* at all, and the render token is never the longer one
ScanningRuleWithoutQuotes ==
    Rendered =>
        \A i \in TokenStarts(text, 0) :
            /\ TokenEnd(text, i) <= find_token_range(text, i).end
            /\ ~Contains(Slice(text, i, find_token_range(text, i).end), "\"") =>
                   TokenEnd(text, i) = find_token_range(text, i).end

----------------------------------------------------------------------------
(* C14 *)

\* the caret clamped to [0, len(text)]
ClampedCaret == IF caret < 0 THEN 0 ELSE IF caret > Len(text) THEN Len(text) ELSE caret

\* C14: out-of-range carets are clamped, never rejected.  For every text
\* and every caret index, negative or beyond the end included,
\* fragment_before and token_range return what they return for the caret
\* clamped to [0, len(text)], with
\* 0 <= start <= clamped caret <= end <= len(text).
CaretsClamped ==
    /\ pc \in {"fragment", "both"} =>
          /\ fragment = _current_fragment(text, ClampedCaret)
          /\ Len(fragment) <= ClampedCaret
    /\ pc \in {"ranged", "both"} =>
          /\ token_range = TokenRangeAt(text, ClampedCaret)
          /\ 0 <= token_range.start
          /\ token_range.start <= ClampedCaret
          /\ ClampedCaret <= token_range.end
          /\ token_range.end <= Len(text)

\* both were asked at a caret two places beyond the end of a text of two
\* words, and answered with the last word
CaretsClampedWitness ==
    /\ pc = "both"
    /\ text = <<"c", " ", "c">>
    /\ caret = Len(text) + 2
    /\ fragment = <<"c">>
    /\ token_range = [start |-> 2, end |-> 3]

----------------------------------------------------------------------------
(* C15 *)

\* C15: history and input rendering apply the same token rules.  For every
\* text and registry the history pass and the input pass turn the same
\* tokens into pills, with the same labels: the two buffers have the same
\* length, pills at the same places with the same labels, and the same
\* plain characters elsewhere.
SameTokenRules ==
    pc = "shown" =>
        /\ Len(history) = Len(storage)
        /\ \A k \in 1..Len(history) :
              /\ history[k].ch = storage[k].ch
              /\ history[k].label = storage[k].label

----------------------------------------------------------------------------
(* C16 *)

\* a step of _rebuild_buffer_with_pills
RebuildStep ==
    /\ pc \in {"plained", "placed", "rebuilt"}
    /\ pc' \in {"rebuilt", "failed"}

\* C16: in a rebuild the caret plain index passed to render is an offset
\* into the plain text passed to render.  For every buffer and every caret
\* rendered index c, caret_plain is the length of to_plain
\* (strip_ends=False) of the first c elements of the buffer, the spaces
\* that to_plain inserts around pills included.
CaretPlainIsOffset ==
    [][RebuildStep =>
          caret' = Len(_plain_text_from_view(SubSeq(storage, 1, sel), FALSE))]_vars

\* what does hold: caret_plain is that length less the inserted spaces, so
\* never beyond it
CaretPlainAtMostOffset ==
    [][RebuildStep =>
          /\ caret' <= Len(_plain_text_from_view(SubSeq(storage, 1, sel), FALSE))
          /\ caret' = Offset(storage, sel + 1)
                      - Cardinality({k \in 1..sel : storage[k] = PlainChar(OBJ)})]_vars

----------------------------------------------------------------------------
(* C17 *)

\* the last user event was Enter, received with the popup visible
EnterInPopup == cmd.selector = "insertNewline:" /\ cmd.visible

\* the fragment that stood before the caret when the command arrived
FragmentAtCommand == _current_fragment(StringOf(cmd.storage), cmd.sel)

----------------------------------------------------------------------------
(* C18 *)

\* a rebuild is between beginEditing and the end of its finally block
Replacing ==
    \E k \in 1..Len(stack) :
        /\ stack[k].fn = "textDidChange_"
        /\ stack[k].at \in {"beginEditing", "setAttributedString_", "endEditing"}

\* C18: the rebuild latch is always released.  _rebuilding is set only
\* while a rebuild is replacing the buffer content; once the rebuild is
\* over, whether the replacement completed or raised, the latch is clear,
\* so no later notification finds it set.
LatchAlwaysReleased ==
    _rebuilding => Replacing

\* what does hold: the latch is set by the rebuild only, right before
\* beginEditing, and cleared by the finally block only
LatchSetByRebuildOnly ==
    [][/\ (_rebuilding' /\ ~_rebuilding) => Running("textDidChange_", "build")
       /\ (_rebuilding /\ ~_rebuilding') => Running("textDidChange_", "endEditing")]_vars

====
